---------------------------- MODULE Spec2Model ----------------------------
(***************************************************************************)
(* The quest event dispatch engine of server/internal/quest/               *)
(* quest-manager.go: the handler registry ZoneQuestInterface (Handlers,    *)
(* guarded by the sync.RWMutex Mu) with its operations Register,           *)
(* Unregister and Invoke, called by several goroutines.                    *)
(*                                                                         *)
(* Every goroutine t runs a sequence of calls.  call[t] is the activation  *)
(* record of its current call: the program counter, the arguments as far   *)
(* as the call has read them, the locals, and a few history fields that     *)
(* only the properties read (quiet, named, listed, pre).  When a call       *)
(* returns, its arguments and its result go to the history: last is the    *)
(* Register or Unregister call, lastInvoke the Invoke call, that returned   *)
(* most recently.                                                          *)
(*                                                                         *)
(* Three specifications: Spec, the goroutines calling the registry;        *)
(* SpecEvent, one goroutine building the event record QuestEvent with its   *)
(* chained methods and dispatching it; SpecReentrant, handlers that call   *)
(* the registry from inside Invoke.                                        *)
(***************************************************************************)
EXTENDS Integers, Sequences, FiniteSets, TLC

\* ---------------------------------------------------------------- bounds
\* Calls the goroutines make in all.  (The argument lists of Register and
\* Unregister have any length: a call reads its list element by element, and
\* only what it has read is state.)
MaxCalls == 3

\* ------------------------------------------------------------ the program
\* QuestEventType values (iota)
EventSay == 0
EventDeath == 2

Threads == {"g1", "g2"}
Names == {"rat1", "goblin"}
Kinds == {EventSay, EventDeath}
HandlerIds == {"h1", "h2"}
\* the nil QuestHandler / a missing map value
NoHandler == "nil"
\* Mu with no writer
Free == "free"

\* map[QuestEventType]QuestHandler as a total function: NoHandler = no key
EmptyInner == [k \in Kinds |-> NoHandler]
\* z.Handlers[name] of a name that is no key of the outer map
Absent == [present |-> FALSE, m |-> EmptyInner]

\* len(m) of an inner map
MapLen(m) == Cardinality({k \in Kinds : m[k] # NoHandler})

\* The elements a caller can pass in `events ...any`, by dynamic type.
KindArg(k) == [type |-> "QuestEventType", kind |-> k, h |-> NoHandler]
HandlerArg(h) == [type |-> "QuestHandler", kind |-> EventSay, h |-> h]
FuncArg(h) == [type |-> "func(*QuestEvent) bool", kind |-> EventSay, h |-> h]
OtherArg == [type |-> "other", kind |-> EventSay, h |-> NoHandler]
\* events[i+1] when i+1 = len(events)
OutOfRange == [type |-> "index out of range", kind |-> EventSay, h |-> NoHandler]
ArgElems ==
    {KindArg(k) : k \in Kinds} \cup {HandlerArg(h) : h \in HandlerIds}
        \cup {FuncArg(h) : h \in HandlerIds} \cup {OtherArg}

\* events[i].(QuestEventType) succeeds
IsKind(e) == e.type = "QuestEventType"
\* the type switch on events[i+1] takes one of its two handler cases
IsHandler(e) == e.type \in {"QuestHandler", "func(*QuestEvent) bool"}

\* if z.Handlers[name] == nil { z.Handlers[name] = make(...) }
\* (z.Handlers itself is made first when nil: see RegisterInit)
EnsureEntry(H, name) ==
    IF H[name].present THEN H
    ELSE [H EXCEPT ![name] = [present |-> TRUE, m |-> EmptyInner]]

\* Mutant of Install: a handler already registered for the pair is kept.
InstallIfAbsent(H, name, event, handler) ==
    IF H[name].m[event] = NoHandler
    THEN [H EXCEPT ![name].m[event] = handler]
    ELSE H

\* z.Handlers[name][event] = handler
Install(H, name, event, handler) ==
    [H EXCEPT ![name].m[event] = handler]

\* Mutant of DeleteKind: every kind of the script id is deleted.
DeleteKindAll(H, name, event) ==
    [H EXCEPT ![name].m = EmptyInner]

\* delete(z.Handlers[name], event)
DeleteKind(H, name, event) ==
    [H EXCEPT ![name].m[event] = NoHandler]

\* Mutant of DeleteName: the entry stays.
DeleteNameNot(H, name) == H

\* delete(z.Handlers, name)
DeleteName(H, name) ==
    [H EXCEPT ![name] = Absent]

\* handlers, ok := z.Handlers[name]: a reference to the inner map, or nothing.
\* A reference is "live" while the inner map is the outer map's value for
\* name; see Detach.
LookupOuter(H, name) ==
    IF H[name].present
    THEN [ref |-> "live", name |-> name, m |-> EmptyInner]
    ELSE [ref |-> "nil", name |-> name, m |-> EmptyInner]

\* The contents of the inner map a reference points to.
Deref(H, r) ==
    CASE r.ref = "live" -> H[r.name].m
      [] r.ref = "detached" -> r.m
      [] OTHER -> EmptyInner

\* handler, ok := handlers[evt.EventType]
LookupInner(m, event) == m[event]

\* ------------------------------------------------------- the event record
\* Longest argument list of Strings.
MaxStrings == 2

\* entity.Moblike values; NoMob is the nil interface
NoMob == "nil"
Mobs == {NoMob, "mob1"}
\* the pointer fields (*[]items.ItemInstance, ...): nil or a list
NoList == "nil"
Lists == {NoList, "list"}
\* uint32 values (SpellID, ExtraData), 0 the zero value
Uint32s == {0, 1}
\* EncounterName values, "" the zero value
EncounterNames == {"", "enc"}
\* the strings of a string list
StringVals == {"a", "b"}
\* vals ...string
StringLists == UNION {[1..n -> StringVals] : n \in 0..MaxStrings}

\* A []string: its backing array arr (cap = Len(arr)) and its length; what
\* the slice shows is arr[1..len].  The nil slice has no array.
NilSlice == [len |-> 0, arr |-> <<>>]

\* QuestEvent{}: every field at its zero value
ZeroEvent ==
    [EventType |-> EventSay, Actor |-> NoMob, Receiver |-> NoMob,
     Item |-> NoList, ZoneData |-> NoList, EncounterName |-> "",
     ExtraData |-> 0, SpellID |-> 0, ItemArray |-> NoList,
     ActorArray |-> NoList, StringArray |-> NilSlice]

\* the fields of QuestEvent
Fields == DOMAIN ZeroEvent

\* Mutant of Reset: the kind survives.
ResetKeepType(e) == [ZeroEvent EXCEPT !.EventType = e.EventType]

\* Mutant of Reset: the string list is truncated, not dropped, and the
\* references are kept.
ResetScalars(e) ==
    [e EXCEPT !.EventType = EventSay, !.EncounterName = "",
              !.ExtraData = 0, !.SpellID = 0,
              !.StringArray = [@ EXCEPT !.len = 0]]

\* *e = QuestEvent{}
Reset(e) == ZeroEvent

\* e.EventType = t
Type(e, t) == [e EXCEPT !.EventType = t]
\* e.Actor = a
SetActor(e, a) == [e EXCEPT !.Actor = a]
\* e.Receiver = r
SetReceiver(e, r) == [e EXCEPT !.Receiver = r]
\* e.SpellID = id
Spell(e, id) == [e EXCEPT !.SpellID = id]
\* e.ExtraData = d
Extra(e, d) == [e EXCEPT !.ExtraData = d]

\* Mutant of Encounter: the store also clears the spell id.
EncounterClearsSpell(e, name) ==
    [e EXCEPT !.EncounterName = name, !.SpellID = 0]

\* e.EncounterName = name
Encounter(e, name) == [e EXCEPT !.EncounterName = name]

\* Mutant of Truncate: the slice keeps its length.
TruncateNot(sl) == sl

\* sl[:0]: the same backing array, length 0
Truncate(sl) == [sl EXCEPT !.len = 0]

\* append(sl, vals...): in place when the backing array has room (the
\* elements past the new length stay in the array), else into a new array
\* that holds the elements of the slice and then vals.
AppendAll(sl, vals) ==
    LET n == sl.len + Len(vals) IN
    IF n <= Len(sl.arr)
    THEN [len |-> n,
          arr |-> [i \in 1..Len(sl.arr) |->
                     IF i > sl.len /\ i <= n THEN vals[i - sl.len]
                     ELSE sl.arr[i]]]
    ELSE [len |-> n, arr |-> SubSeq(sl.arr, 1, sl.len) \o vals]

\* e.StringArray = e.StringArray[:0]; e.StringArray = append(e.StringArray, vals...)
Strings(e, vals) ==
    [e EXCEPT !.StringArray = AppendAll(Truncate(@), vals)]

\* The string list a record shows: e.StringArray[0:len]
StringList(e) == SubSeq(e.StringArray.arr, 1, e.StringArray.len)

\* A record that was used for an earlier event and not reset since.
StaleEvent ==
    [EventType |-> EventDeath, Actor |-> "mob1", Receiver |-> "mob1",
     Item |-> "list", ZoneData |-> "list", EncounterName |-> "enc",
     ExtraData |-> 1, SpellID |-> 1, ItemArray |-> "list",
     ActorArray |-> "list",
     StringArray |-> [len |-> 2, arr |-> <<"a", "b">>]]

\* The address of the event record: the receiver e of its methods.
Self == "e"

VARIABLES
    Handlers,     \* z.Handlers: name -> [present, m]
    HandlersNil,  \* z.Handlers == nil (no Register has made the map)
    Mu,           \* z.Mu: [w: the goroutine holding Lock or Free, r: holders of RLock]
    call,         \* goroutine -> activation record
    ncalls,       \* how many calls were begun
    last,         \* history: the writer call that returned last, while
                  \* no later call has acquired Mu.Lock()
    lastInvoke,   \* history: the Invoke call that returned last, while no
                  \* later call has acquired Mu.Lock()
    fatal,        \* the runtime threw "concurrent map read and map write"
    rec,          \* *e: the event record a goroutine builds and dispatches
    recOp,        \* history: the method of the record that returned last
    stack         \* goroutine -> the activation records of its Invoke
                  \* calls whose handler is inside a call it made on z

vars ==
    <<Handlers, HandlersNil, Mu, call, ncalls, last, lastInvoke, fatal,
      rec, recOp, stack>>

NilRef == [ref |-> "nil", name |-> "rat1", m |-> EmptyInner]
NoPending == [kind |-> EventSay, h |-> NoHandler]

\* The activation record of a goroutine that is in no call.
Fresh ==
    [pc |-> "idle", op |-> "none", name |-> "rat1",
     nokinds |-> FALSE,
     pending |-> NoPending, named |-> EmptyInner, listed |-> {},
     evt |-> [EventType |-> EventSay],
     handlers |-> NilRef, calls |-> <<>>, nested |-> {},
     quiet |-> FALSE, pre |-> Absent]

\* What a returned Register or Unregister call leaves in the history: its
\* arguments as far as the call read them (Register: named, the last handler
\* each kind was paired with in the well-formed pairs, and bad, what was
\* malformed; Unregister: nokinds, len(events) = 0, and listed, the kinds),
\* how it ended, and pre, the entry of name as the call found it.
Summary(c, outcome, bad) ==
    [op |-> c.op, name |-> c.name, nokinds |-> c.nokinds, listed |-> c.listed,
     named |-> c.named, bad |-> bad, outcome |-> outcome, pre |-> c.pre]

NoSummary == Summary(Fresh, "none", "none")

\* What a returned Invoke call leaves in the history: its arguments, the
\* calls of handlers it made, the operations of z its handler called
\* (nested), what the handler returned (hret), what Invoke returned (ret),
\* how Invoke ended, and whether it was quiet.
InvokeSummary(c, hret, ret, outcome) ==
    [op |-> c.op, name |-> c.name, evt |-> c.evt, calls |-> c.calls,
     nested |-> c.nested,
     hret |-> hret, ret |-> ret, outcome |-> outcome, quiet |-> c.quiet]

NoInvoke == InvokeSummary(Fresh, "none", "none", "none")

\* What a returned method of the record leaves in the history: the method,
\* its argument, the record as it was before, and the pointer returned.
OpSummary(op, arg, pre, ret) ==
    [op |-> op, arg |-> arg, pre |-> pre, ret |-> ret]

NoOp == OpSummary("none", "none", ZeroEvent, "none")

Init ==
    /\ Handlers = [s \in Names |-> Absent]
    /\ HandlersNil = TRUE
    /\ Mu = [w |-> Free, r |-> {}]
    /\ call = [t \in Threads |-> Fresh]
    /\ ncalls = 0
    /\ last = NoSummary
    /\ lastInvoke = NoInvoke
    /\ fatal = FALSE
    /\ rec = ZeroEvent
    /\ recOp = NoOp
    /\ stack = [t \in Threads |-> <<>>]

\* A goroutine that can begin its next call: it is in no call, and not in
\* a handler that waits to go on after a call it made.
CanCall(t) ==
    /\ ~fatal
    /\ call[t].pc = "idle"
    /\ stack[t] = <<>>
    /\ ncalls < MaxCalls

InInvoke(u) == call[u].pc \in {"i_outer", "i_inner", "i_running"}

\* Mutant of CanLock: Lock() returns whoever holds Mu.
CanLockAlways == TRUE

\* z.Mu.Lock() returns: no writer and no reader holds Mu.
CanLock == Mu.w = Free /\ Mu.r = {}

\* z.Mu.Lock() by t, entering the critical section at pc `next`.  History:
\* the call remembers the entry of its name as it found it; no Invoke that
\* began earlier is quiet any more (quiet: Mu was free when the Invoke
\* began and no call has acquired it since), and no returned call is the
\* last one.
Lock(t, next) ==
    /\ CanLock
    /\ Mu' = [Mu EXCEPT !.w = t]
    /\ last' = NoSummary
    /\ lastInvoke' = NoInvoke
    /\ call' = [u \in Threads |->
                  IF u = t
                  THEN [call[t] EXCEPT !.pc = next,
                                       !.pre = Handlers[call[t].name]]
                  ELSE [call[u] EXCEPT !.quiet = FALSE]]

\* The references to name's inner map that goroutines hold keep the map as
\* it is when delete(z.Handlers, name) unlinks it: no writer reaches it again.
Detach(c, name) ==
    [u \in Threads |->
       IF c[u].handlers.ref = "live" /\ c[u].handlers.name = name
       THEN [c[u] EXCEPT !.handlers =
               [ref |-> "detached", name |-> name, m |-> Handlers[name].m]]
       ELSE c[u]]

\* ------------------------------------------------------------- Register
\* A caller calls z.Register(name, events...).
CallRegister(t) ==
    /\ CanCall(t)
    /\ \E name \in Names :
         call' = [call EXCEPT ![t] =
                    [Fresh EXCEPT
                       !.pc = "r_lock", !.op = "Register", !.name = name]]
    /\ ncalls' = ncalls + 1
    /\ UNCHANGED <<Handlers, HandlersNil, Mu, last, lastInvoke, fatal,
                   rec, recOp, stack>>

\* z.Mu.Lock(); defer z.Mu.Unlock()
RegisterLock(t) ==
    /\ ~fatal
    /\ call[t].pc = "r_lock"
    /\ Lock(t, "r_init")
    /\ UNCHANGED <<Handlers, HandlersNil, ncalls, fatal, rec, recOp, stack>>

\* The two nil checks: make z.Handlers and z.Handlers[name] when missing.
RegisterInit(t) ==
    /\ ~fatal
    /\ call[t].pc = "r_init"
    /\ HandlersNil' = FALSE
    /\ Handlers' = EnsureEntry(Handlers, call[t].name)
    /\ call' = [call EXCEPT ![t].pc = "r_loop"]
    /\ UNCHANGED <<Mu, ncalls, last, lastInvoke, fatal, rec, recOp, stack>>

\* i >= len(events): the loop ends, the deferred Unlock runs, Register returns.
RegisterReturn(t) ==
    /\ ~fatal
    /\ call[t].pc = "r_loop"
    /\ Mu' = [Mu EXCEPT !.w = Free]
    /\ call' = [call EXCEPT ![t] = Fresh]
    /\ last' = Summary(call[t], "ok", "none")
    /\ UNCHANGED <<Handlers, HandlersNil, ncalls, lastInvoke, fatal,
                   rec, recOp, stack>>

\* Why one loop iteration on events[i], events[i+1] panics, or "none".
Malformed(e0, e1) ==
    IF ~IsKind(e0) THEN "not QuestEventType"
    ELSE IF e1 = OutOfRange THEN "index out of range"
    ELSE IF ~IsHandler(e1) THEN "not a valid QuestHandler"
    ELSE "none"

\* The elements events[i+1] can be after events[i] = e0: the type assertion
\* on e0 panics before events[i+1] is read.
SecondElems(e0) ==
    IF IsKind(e0) THEN ArgElems \cup {OutOfRange} ELSE {OutOfRange}

\* One loop iteration up to the type switch, on the next two elements of
\* events (e1 = OutOfRange: e0 is the last element).  A malformed pair
\* panics: the deferred Unlock runs and the panic leaves Register.  A
\* well-formed pair is ready to be stored.
RegisterFetch(t) ==
    /\ ~fatal
    /\ call[t].pc = "r_loop"
    /\ \E e0 \in ArgElems : \E e1 \in SecondElems(e0) :
         IF Malformed(e0, e1) # "none"
         THEN /\ Mu' = [Mu EXCEPT !.w = Free]
              /\ call' = [call EXCEPT ![t] = Fresh]
              /\ last' = Summary(call[t], "panic", Malformed(e0, e1))
         ELSE /\ Mu' = Mu
              /\ last' = last
              /\ call' = [call EXCEPT ![t].pc = "r_install",
                                      ![t].pending = [kind |-> e0.kind, h |-> e1.h]]
    /\ UNCHANGED <<Handlers, HandlersNil, ncalls, lastInvoke, fatal,
                   rec, recOp, stack>>

\* z.Handlers[name][event] = handler; i += 2
RegisterInstall(t) ==
    /\ ~fatal
    /\ call[t].pc = "r_install"
    /\ Handlers' = Install(Handlers, call[t].name,
                           call[t].pending.kind, call[t].pending.h)
    /\ call' = [call EXCEPT ![t].pc = "r_loop",
                            ![t].named[call[t].pending.kind] = call[t].pending.h,
                            ![t].pending = NoPending]
    /\ UNCHANGED <<HandlersNil, Mu, ncalls, last, lastInvoke, fatal,
                   rec, recOp, stack>>

\* ----------------------------------------------------------- Unregister
\* A caller calls z.Unregister(name, events...), with or without kinds.
CallUnregister(t) ==
    /\ CanCall(t)
    /\ \E name \in Names, nokinds \in BOOLEAN :
         call' = [call EXCEPT ![t] =
                    [Fresh EXCEPT
                       !.pc = "u_lock", !.op = "Unregister",
                       !.name = name, !.nokinds = nokinds]]
    /\ ncalls' = ncalls + 1
    /\ UNCHANGED <<Handlers, HandlersNil, Mu, last, lastInvoke, fatal,
                   rec, recOp, stack>>

\* z.Mu.Lock(); defer z.Mu.Unlock()
UnregisterLock(t) ==
    /\ ~fatal
    /\ call[t].pc = "u_lock"
    /\ Lock(t, "u_check")
    /\ UNCHANGED <<Handlers, HandlersNil, ncalls, fatal, rec, recOp, stack>>

\* if z.Handlers == nil || z.Handlers[name] == nil { return }
UnregisterNothing(name) == HandlersNil \/ ~Handlers[name].present

\* The two early returns (the deferred Unlock runs), or on to the loop with
\* the first of events: nothing registered for name; no kinds given,
\* delete(z.Handlers, name).
UnregisterCheck(t) ==
    /\ ~fatal
    /\ call[t].pc = "u_check"
    /\ IF UnregisterNothing(call[t].name)
       THEN /\ Mu' = [Mu EXCEPT !.w = Free]
            /\ call' = [call EXCEPT ![t] = Fresh]
            /\ last' = Summary(call[t], "ok", "none")
            /\ Handlers' = Handlers
       ELSE IF call[t].nokinds
       THEN /\ Mu' = [Mu EXCEPT !.w = Free]
            /\ Handlers' = DeleteName(Handlers, call[t].name)
            /\ call' = [Detach(call, call[t].name) EXCEPT
                          ![t] = Fresh]
            /\ last' = Summary(call[t], "ok", "none")
       ELSE /\ Mu' = Mu
            /\ Handlers' = Handlers
            /\ last' = last
            /\ \E event \in Kinds :
                 call' = [call EXCEPT ![t].pc = "u_delete",
                                      ![t].pending.kind = event]
    /\ UNCHANGED <<HandlersNil, ncalls, lastInvoke, fatal, rec, recOp, stack>>

\* delete(z.Handlers[name], event) for the event the range is at, and on to
\* the next of events or, after the last, to the cleanup.
UnregisterDelete(t) ==
    /\ ~fatal
    /\ call[t].pc = "u_delete"
    /\ Handlers' = DeleteKind(Handlers, call[t].name, call[t].pending.kind)
    /\ \/ \E event \in Kinds :
            call' = [call EXCEPT ![t].listed = @ \cup {call[t].pending.kind},
                                 ![t].pending.kind = event]
       \/ call' = [call EXCEPT ![t].listed = @ \cup {call[t].pending.kind},
                               ![t].pending = NoPending,
                               ![t].pc = "u_cleanup"]
    /\ UNCHANGED <<HandlersNil, Mu, ncalls, last, lastInvoke, fatal,
                   rec, recOp, stack>>

\* Mutant of Cleanup: an entry left without kinds stays.
CleanupKeep(H, name) == H

\* if len(z.Handlers[name]) == 0 { delete(z.Handlers, name) }
Cleanup(H, name) ==
    IF MapLen(H[name].m) = 0 THEN DeleteName(H, name) ELSE H

\* The cleanup after the loop; the deferred Unlock runs, Unregister returns.
UnregisterCleanup(t) ==
    /\ ~fatal
    /\ call[t].pc = "u_cleanup"
    /\ Handlers' = Cleanup(Handlers, call[t].name)
    /\ Mu' = [Mu EXCEPT !.w = Free]
    /\ call' = [(IF MapLen(Handlers[call[t].name].m) = 0
                 THEN Detach(call, call[t].name) ELSE call) EXCEPT
                  ![t] = Fresh]
    /\ last' = Summary(call[t], "ok", "none")
    /\ UNCHANGED <<HandlersNil, ncalls, lastInvoke, fatal, rec, recOp, stack>>

\* --------------------------------------------------------------- Invoke
\* A caller calls z.Invoke(name, evt).
CallInvoke(t) ==
    /\ CanCall(t)
    /\ \E name \in Names, kind \in Kinds :
         call' = [call EXCEPT ![t] =
                    [Fresh EXCEPT
                       !.pc = "i_outer", !.op = "Invoke", !.name = name,
                       !.evt = [EventType |-> kind],
                       !.quiet = (Mu.w = Free)]]
    /\ ncalls' = ncalls + 1
    /\ UNCHANGED <<Handlers, HandlersNil, Mu, last, lastInvoke, fatal,
                   rec, recOp, stack>>

\* The goroutines other than t whose next step writes z.Handlers or the
\* outer map (they hold Mu.Lock(); Invoke takes no lock), each with the outer
\* map as that write leaves it.
OuterWrites(t) ==
    {<<a, EnsureEntry(Handlers, call[a].name)>> :
        a \in {a \in Threads \ {t} :
                 /\ call[a].pc = "r_init"
                 /\ (HandlersNil \/ ~Handlers[call[a].name].present)}}
    \cup
    {<<a, DeleteName(Handlers, call[a].name)>> :
        a \in {a \in Threads \ {t} :
                 \/ /\ call[a].pc = "u_check"
                    /\ ~UnregisterNothing(call[a].name)
                    /\ call[a].nokinds
                 \/ /\ call[a].pc = "u_cleanup"
                    /\ MapLen(Handlers[call[a].name].m) = 0}}

\* The goroutines other than t whose next step writes the inner map that
\* reference r points to, each with the inner map as that write leaves it.
InnerWrites(t, r) ==
    IF r.ref # "live" THEN {}
    ELSE
      {<<a, Install(Handlers, r.name, call[a].pending.kind,
                    call[a].pending.h)[r.name].m>> :
          a \in {a \in Threads \ {t} :
                   call[a].pc = "r_install" /\ call[a].name = r.name}}
      \cup
      {<<a, DeleteKind(Handlers, r.name, call[a].pending.kind)[r.name].m>> :
          a \in {a \in Threads \ {t} :
                   call[a].pc = "u_delete" /\ call[a].name = r.name}}

\* Mutant of InvokeResult: the handler's result is dropped, Invoke reports
\* the event handled.
InvokeResultTrue(hret) == "true"

\* What Invoke returns when the handler returns hret: return handler(evt)
InvokeResult(hret) == hret

\* How Invoke ends when the handler ends with hret: Invoke has no recover(),
\* a panic of the handler leaves Invoke as a panic.
InvokeOutcome(hret) == IF hret = "panic" THEN "panic" ELSE "ok"

\* Mutant of InvokeAcquire: z.Mu.RLock() with the RUnlock deferred, so that
\* the read lock is held while the handler runs.
InvokeAcquireRLock(t) == [Mu EXCEPT !.r = @ \cup {t}]

\* Mutant of InvokeAcquire: z.Mu.Lock() with the Unlock deferred, so that
\* the write lock is held while the handler runs.
InvokeAcquireLock(t) == [Mu EXCEPT !.w = t]

\* What Invoke does to z.Mu before it reads z.Handlers: nothing.
InvokeAcquire(t) == Mu

\* Mutant of InvokeMiss: return true.
InvokeMissTrue(c) == InvokeSummary(c, "none", "true", "ok")

\* return false: no entry for name, or no handler for the kind
InvokeMiss(c) == InvokeSummary(c, "none", "false", "ok")

\* Mutant of InvokeOuter: the lookup takes z.Mu.Lock() and keeps it.
InvokeOuterLocked(t) ==
    /\ ~fatal
    /\ call[t].pc = "i_outer"
    /\ CanLock
    /\ Mu' = [Mu EXCEPT !.w = t]
    /\ call' = [call EXCEPT ![t].pc = "i_inner",
                            ![t].handlers = LookupOuter(Handlers, call[t].name)]
    /\ UNCHANGED <<Handlers, HandlersNil, ncalls, last, lastInvoke, fatal,
                   rec, recOp, stack>>

\* handlers, ok := z.Handlers[name], read without any lock.  When another
\* goroutine is about to write the outer map, the read and the write are
\* unordered: the read sees the map before or after the write, or the
\* runtime detects the concurrent access and throws (a fatal error that
\* no recover() stops).
InvokeOuter(t) ==
    /\ ~fatal
    /\ call[t].pc = "i_outer"
    /\ \/ /\ \E H \in {Handlers} \cup {w[2] : w \in OuterWrites(t)} :
               LET r == LookupOuter(H, call[t].name) IN
               IF r.ref = "nil"
               THEN /\ call' = [call EXCEPT ![t] = Fresh]
                    /\ lastInvoke' = InvokeMiss(call[t])
               ELSE /\ call' = [call EXCEPT ![t].pc = "i_inner",
                                            ![t].handlers = r]
                    /\ lastInvoke' = lastInvoke
          /\ fatal' = fatal
       \/ /\ OuterWrites(t) # {}
          /\ fatal' = TRUE
          /\ UNCHANGED <<call, lastInvoke>>
    /\ Mu' = InvokeAcquire(t)
    /\ UNCHANGED <<Handlers, HandlersNil, ncalls, last, rec, recOp, stack>>

\* handler, ok := handlers[evt.EventType], read without any lock, and on a
\* hit the call handler(evt) begins.
InvokeInner(t) ==
    /\ ~fatal
    /\ call[t].pc = "i_inner"
    /\ \/ /\ \E m \in {Deref(Handlers, call[t].handlers)}
                        \cup {w[2] : w \in InnerWrites(t, call[t].handlers)} :
               LET handler == LookupInner(m, call[t].evt.EventType) IN
               IF handler = NoHandler
               THEN /\ call' = [call EXCEPT ![t] = Fresh]
                    /\ lastInvoke' = InvokeMiss(call[t])
               ELSE /\ call' = [call EXCEPT
                                  ![t].pc = "i_running",
                                  ![t].handlers = NilRef,
                                  ![t].calls = Append(@, [h |-> handler,
                                                          evt |-> call[t].evt])]
                    /\ lastInvoke' = lastInvoke
          /\ fatal' = fatal
       \/ /\ InnerWrites(t, call[t].handlers) # {}
          /\ fatal' = TRUE
          /\ UNCHANGED <<call, lastInvoke>>
    /\ UNCHANGED <<Handlers, HandlersNil, Mu, ncalls, last, rec, recOp, stack>>

\* The handler ends: it returns true or false, or it panics.  Invoke ends
\* with it.
HandlerReturn(t) ==
    /\ ~fatal
    /\ call[t].pc = "i_running"
    /\ \E hret \in {"true", "false", "panic"} :
         lastInvoke' = InvokeSummary(call[t], hret,
                                     IF InvokeOutcome(hret) = "panic" THEN "none"
                                     ELSE InvokeResult(hret),
                                     InvokeOutcome(hret))
    /\ call' = [call EXCEPT ![t] = Fresh]
    /\ UNCHANGED <<Handlers, HandlersNil, Mu, ncalls, last, fatal, rec, recOp, stack>>

Next ==
    \E t \in Threads :
        \/ CallRegister(t)
        \/ RegisterLock(t)
        \/ RegisterInit(t)
        \/ RegisterFetch(t)
        \/ RegisterInstall(t)
        \/ RegisterReturn(t)
        \/ CallUnregister(t)
        \/ UnregisterLock(t)
        \/ UnregisterCheck(t)
        \/ UnregisterDelete(t)
        \/ UnregisterCleanup(t)
        \/ CallInvoke(t)
        \/ InvokeOuter(t)
        \/ InvokeInner(t)
        \/ HandlerReturn(t)

Spec == Init /\ [][Next]_vars

\* ------------------------------------------- building and dispatching *e
\* The goroutine that owns the event record: it populates the record and
\* passes it to Invoke.
Owner == "g1"

\* A method of the record, called by t, returns e (the receiver), having
\* left the record as `after`.  History: the Invoke calls that returned
\* before are not the last call any more.
RecordCall(t, op, arg, after) ==
    /\ CanCall(t)
    /\ rec' = after
    /\ recOp' = OpSummary(op, arg, rec, Self)
    /\ ncalls' = ncalls + 1
    /\ lastInvoke' = NoInvoke
    /\ UNCHANGED <<Handlers, HandlersNil, Mu, call, last, fatal, stack>>

\* e.Reset()
CallReset(t) == RecordCall(t, "Reset", "none", Reset(rec))

\* e.Type(k)
CallType(t) == \E k \in Kinds : RecordCall(t, "Type", k, Type(rec, k))

\* e.SetActor(a)
CallSetActor(t) ==
    \E a \in Mobs : RecordCall(t, "SetActor", a, SetActor(rec, a))

\* e.SetReceiver(r)
CallSetReceiver(t) ==
    \E r \in Mobs : RecordCall(t, "SetReceiver", r, SetReceiver(rec, r))

\* e.Spell(id)
CallSpell(t) == \E id \in Uint32s : RecordCall(t, "Spell", id, Spell(rec, id))

\* e.Extra(d)
CallExtra(t) == \E d \in Uint32s : RecordCall(t, "Extra", d, Extra(rec, d))

\* e.Encounter(name)
CallEncounter(t) ==
    \E name \in EncounterNames :
        RecordCall(t, "Encounter", name, Encounter(rec, name))

\* e.Strings(vals...)
CallStrings(t) ==
    \E vals \in StringLists :
        RecordCall(t, "Strings", vals, Strings(rec, vals))

\* z.Invoke(name, e): the record is the event of the call.
CallInvokeEvent(t) ==
    /\ CanCall(t)
    /\ \E name \in Names :
         call' = [call EXCEPT ![t] =
                    [Fresh EXCEPT
                       !.pc = "i_outer", !.op = "Invoke", !.name = name,
                       !.evt = [EventType |-> rec.EventType],
                       !.quiet = (Mu.w = Free)]]
    /\ ncalls' = ncalls + 1
    /\ UNCHANGED <<Handlers, HandlersNil, Mu, last, lastInvoke, fatal,
                   rec, recOp, stack>>

\* The registry after Register("rat1", EventSay, h1, EventDeath, h2) and
\* Register("goblin", EventDeath, h2).
LoadedScripts ==
    Install(
        EnsureEntry(
            Install(
                Install(EnsureEntry([s \in Names |-> Absent], "rat1"),
                        "rat1", EventSay, "h1"),
                "rat1", EventDeath, "h2"),
            "goblin"),
        "goblin", EventDeath, "h2")

\* The scripts are loaded; the record the owner starts with is new, or
\* comes back from an earlier event without a reset.
InitEvent ==
    /\ Handlers = LoadedScripts
    /\ HandlersNil = FALSE
    /\ Mu = [w |-> Free, r |-> {}]
    /\ call = [t \in Threads |-> Fresh]
    /\ ncalls = 0
    /\ last = NoSummary
    /\ lastInvoke = NoInvoke
    /\ fatal = FALSE
    /\ rec \in {ZeroEvent, StaleEvent}
    /\ recOp = NoOp
    /\ stack = [t \in Threads |-> <<>>]

\* The owner builds its record and dispatches it.
NextEvent ==
    \E t \in {Owner} :
        \/ CallReset(t)
        \/ CallType(t)
        \/ CallSetActor(t)
        \/ CallSetReceiver(t)
        \/ CallSpell(t)
        \/ CallExtra(t)
        \/ CallEncounter(t)
        \/ CallStrings(t)
        \/ CallInvokeEvent(t)
        \/ InvokeOuter(t)
        \/ InvokeInner(t)
        \/ HandlerReturn(t)

SpecEvent == InitEvent /\ [][NextEvent]_vars

\* ------------------------------------------- calls on z from a handler
\* The running handler of goroutine t calls an operation op of z: the
\* Invoke call it runs in waits on the stack of t (noting the operation),
\* and t is in the new call, whose activation record is frame.
HandlerCall(t, op, frame) ==
    /\ ~fatal
    /\ call[t].pc = "i_running"
    /\ ncalls < MaxCalls
    /\ call' = [call EXCEPT ![t] = frame]
    /\ stack' = [stack EXCEPT
                   ![t] = Append(@, [call[t] EXCEPT !.nested = @ \cup {op}])]
    /\ ncalls' = ncalls + 1
    /\ UNCHANGED <<Handlers, HandlersNil, Mu, last, lastInvoke, fatal,
                   rec, recOp>>

\* The handler calls z.Register(name, events...).
HandlerCallsRegister(t) ==
    \E name \in Names :
        HandlerCall(t, "Register",
                    [Fresh EXCEPT
                       !.pc = "r_lock", !.op = "Register", !.name = name])

\* The handler calls z.Unregister(name, events...).
HandlerCallsUnregister(t) ==
    \E name \in Names, nokinds \in BOOLEAN :
        HandlerCall(t, "Unregister",
                    [Fresh EXCEPT
                       !.pc = "u_lock", !.op = "Unregister",
                       !.name = name, !.nokinds = nokinds])

\* The handler calls z.Invoke(name, evt).
HandlerCallsInvoke(t) ==
    \E name \in Names, kind \in Kinds :
        HandlerCall(t, "Invoke",
                    [Fresh EXCEPT
                       !.pc = "i_outer", !.op = "Invoke", !.name = name,
                       !.evt = [EventType |-> kind],
                       !.quiet = (Mu.w = Free)])

\* The call the handler made has ended: the handler goes on.
HandlerResume(t) ==
    /\ ~fatal
    /\ call[t].pc = "idle"
    /\ stack[t] # <<>>
    /\ call' = [call EXCEPT ![t] = stack[t][Len(stack[t])]]
    /\ stack' = [stack EXCEPT ![t] = SubSeq(@, 1, Len(@) - 1)]
    /\ UNCHANGED <<Handlers, HandlersNil, Mu, ncalls, last, lastInvoke, fatal,
                   rec, recOp>>

\* The goroutine that dispatches events; the other one unloads scripts.
Dispatcher == "g1"

\* The scripts are loaded.
InitReentrant ==
    /\ Handlers = LoadedScripts
    /\ HandlersNil = FALSE
    /\ Mu = [w |-> Free, r |-> {}]
    /\ call = [t \in Threads |-> Fresh]
    /\ ncalls = 0
    /\ last = NoSummary
    /\ lastInvoke = NoInvoke
    /\ fatal = FALSE
    /\ rec = ZeroEvent
    /\ recOp = NoOp
    /\ stack = [t \in Threads |-> <<>>]

\* The dispatcher calls Invoke, and the handlers it runs call Register,
\* Unregister and Invoke in turn, while the other goroutine calls
\* Unregister.
NextReentrant ==
    \/ \E t \in {Dispatcher} :
          \/ CallInvoke(t)
          \/ HandlerCallsRegister(t)
          \/ HandlerCallsUnregister(t)
          \/ HandlerCallsInvoke(t)
          \/ HandlerResume(t)
    \/ \E t \in Threads \ {Dispatcher} :
          CallUnregister(t)
    \/ \E t \in Threads :
          \/ RegisterLock(t)
          \/ RegisterInit(t)
          \/ RegisterFetch(t)
          \/ RegisterInstall(t)
          \/ RegisterReturn(t)
          \/ UnregisterLock(t)
          \/ UnregisterCheck(t)
          \/ UnregisterDelete(t)
          \/ UnregisterCleanup(t)
          \/ InvokeOuter(t)
          \/ InvokeInner(t)
          \/ HandlerReturn(t)

SpecReentrant == InitReentrant /\ [][NextReentrant]_vars


\* =============================================================== claims
\* The Invoke call that returned last, when no Register or Unregister call
\* held Mu.Lock() at any time since that Invoke began: the registry is now
\* what it was during the whole call.
QuietInvoke == lastInvoke.op = "Invoke" /\ lastInvoke.quiet

\* The record of one call of handler h with the event record of the Invoke.
OneCall(h) == <<[h |-> h, evt |-> lastInvoke.evt]>>

\* The handler registered for the pair the last Invoke named, or NoHandler.
RegisteredNow == Handlers[lastInvoke.name].m[lastInvoke.evt.EventType]

\* C1: an Invoke(s, evt) for a pair (s, evt.EventType) that has a handler h
\* registered throughout the call has called h exactly once, with the event
\* record it was given, and no other handler; when h returned a boolean,
\* Invoke returned that boolean.
C1_InvokeCallsRegisteredHandler ==
    (QuietInvoke /\ RegisteredNow # NoHandler) =>
        /\ lastInvoke.calls = OneCall(RegisteredNow)
        /\ lastInvoke.hret \in {"true", "false"} =>
             (lastInvoke.ret = lastInvoke.hret /\ lastInvoke.outcome = "ok")

\* An Invoke found its handler, the handler returned false and so did Invoke.
C1_Witness ==
    /\ QuietInvoke
    /\ RegisteredNow = "h2"
    /\ lastInvoke.calls = OneCall("h2")
    /\ lastInvoke.hret = "false"
    /\ lastInvoke.ret = "false"

\* The event record of goroutine t's Invoke call, wherever the call is.
EvtOf(t) == IF call[t].op = "Invoke" THEN call[t].evt ELSE lastInvoke.evt

\* C2: an Invoke(s, evt) for a pair that has no handler registered throughout
\* the call (no entry for s, z.Handlers never made, or an entry without the
\* kind) has returned false and has called no handler; and no step of Invoke
\* that looks a handler up changes the registry, its lock or the event record.
C2_InvokeMissReturnsFalse ==
    /\ [](QuietInvoke /\ RegisteredNow = NoHandler =>
            /\ lastInvoke.ret = "false"
            /\ lastInvoke.outcome = "ok"
            /\ lastInvoke.calls = <<>>
            /\ lastInvoke.hret = "none")
    /\ [][\A t \in Threads :
            (InvokeOuter(t) \/ InvokeInner(t)) =>
                /\ UNCHANGED <<Handlers, HandlersNil, Mu>>
                /\ EvtOf(t)' = call[t].evt]_vars

\* An Invoke for a kind with no handler, of a script id that has a handler
\* for the other kind, returned false.
C2_Witness ==
    /\ QuietInvoke
    /\ Handlers[lastInvoke.name].present
    /\ RegisteredNow = NoHandler
    /\ MapLen(Handlers[lastInvoke.name].m) = 1
    /\ lastInvoke.ret = "false"

\* An Invoke on a registry whose Handlers map was never made returned false.
C2_WitnessNilMap ==
    QuietInvoke /\ HandlersNil /\ lastInvoke.ret = "false"

\* The last writer call was a Register that returned normally, and the last
\* Invoke began after it returned, for the same script id.
InvokeAfterRegister ==
    /\ QuietInvoke
    /\ last.op = "Register"
    /\ last.outcome = "ok"
    /\ last.name = lastInvoke.name

\* C3: the last handler written for a pair wins.  After a Register(s, ...)
\* call has returned, an Invoke(s, event{k}) that begins before any later
\* Register or Unregister call, for a kind k the Register call named, has
\* called the handler the call paired with k last (h2, whether h1 was
\* registered by an earlier call or named earlier in the same call), exactly
\* once, and no other handler.
C3_LastRegisteredWins ==
    (InvokeAfterRegister /\ last.named[lastInvoke.evt.EventType] # NoHandler) =>
        lastInvoke.calls = OneCall(last.named[lastInvoke.evt.EventType])

\* h1 was registered for the pair when the Register call began, the call
\* paired the kind with h2 last, and the Invoke called h2.
C3_Witness ==
    /\ InvokeAfterRegister
    /\ last.pre.m[lastInvoke.evt.EventType] = "h1"
    /\ last.named[lastInvoke.evt.EventType] = "h2"
    /\ lastInvoke.calls = OneCall("h2")

\* A Register call is about to pair with h2 a kind its own argument list
\* paired with h1 before: the same-list case of C3.
C3_SameListCase ==
    \E t \in Threads :
        /\ call[t].pc = "r_install"
        /\ call[t].named[call[t].pending.kind] = "h1"
        /\ call[t].pending.h = "h2"

\* C4: a Register call that ended on a malformed argument list has left the
\* entry of its script id exactly as it found it (no pair installed, no entry
\* created).
C4_MalformedRegisterChangesNothing ==
    (last.op = "Register" /\ last.outcome = "panic") =>
        Handlers[last.name] = last.pre

\* C5: Invoke never ends in a panic; when its handler panicked it returned
\* false.  (Stated of the Invoke calls no Register or Unregister call
\* overlaps: the handler's fault is the only thing that goes wrong.)
C5_HandlerFaultContained ==
    QuietInvoke =>
        /\ lastInvoke.outcome = "ok"
        /\ lastInvoke.hret = "panic" => lastInvoke.ret = "false"

\* C6: no lookup of Invoke (of the outer map, or of an inner map) is about to
\* happen while another goroutine is about to write that map: every such
\* pair of accesses is ordered by z.Mu.
C6_NoUnsynchronisedLookup ==
    \A t \in Threads :
        /\ call[t].pc = "i_outer" => OuterWrites(t) = {}
        /\ call[t].pc = "i_inner" => InnerWrites(t, call[t].handlers) = {}

\* The last writer call was an Unregister, and the last Invoke began after it
\* returned, for the same script id.
InvokeAfterUnregister ==
    /\ QuietInvoke
    /\ last.op = "Unregister"
    /\ last.name = lastInvoke.name

\* C7: after Unregister(s) with no kinds has returned, an Invoke(s, evt) that
\* begins before any later Register or Unregister call has returned false
\* and has called nothing, whatever the kind, and s has no entry.
C7_UnregisterAllRemovesAll ==
    (last.op = "Unregister" /\ last.nokinds) =>
        /\ ~Handlers[last.name].present
        /\ InvokeAfterUnregister =>
             (lastInvoke.ret = "false" /\ lastInvoke.calls = <<>>)

\* The Unregister(s) removed a handler of the kind the Invoke then named.
C7_Witness ==
    /\ InvokeAfterUnregister
    /\ last.nokinds
    /\ last.pre.m[lastInvoke.evt.EventType] # NoHandler
    /\ lastInvoke.ret = "false"

\* C8: after Unregister(s, k1..kn) with at least one kind has returned, s has
\* no handler for a listed kind and, for every other kind, the handler it had
\* when the call began; an Invoke(s, event{k}) that begins before any later
\* Register or Unregister call has returned false and called nothing for a
\* listed k, and has called exactly the handler k had before for any other k.
C8_UnregisterKindsRemovesOnlyThose ==
    (last.op = "Unregister" /\ ~last.nokinds) =>
        /\ \A k \in Kinds :
             Handlers[last.name].m[k] =
                IF k \in last.listed THEN NoHandler ELSE last.pre.m[k]
        /\ InvokeAfterUnregister =>
             LET k == lastInvoke.evt.EventType IN
             IF k \in last.listed \/ last.pre.m[k] = NoHandler
             THEN lastInvoke.ret = "false" /\ lastInvoke.calls = <<>>
             ELSE lastInvoke.calls = OneCall(last.pre.m[k])

\* s had handlers for both kinds, Unregister(s, EventSay) removed one, and
\* the Invoke for EventDeath called the handler EventDeath had before.
C8_Witness ==
    /\ InvokeAfterUnregister
    /\ last.listed = {EventSay}
    /\ last.pre.m[EventSay] # NoHandler
    /\ lastInvoke.evt.EventType = EventDeath
    /\ lastInvoke.calls = OneCall(last.pre.m[EventDeath])
    /\ lastInvoke.ret = "true"

\* The steps of a Register or Unregister call of goroutine a.
WriterStep(a) ==
    \/ RegisterLock(a) \/ RegisterInit(a) \/ RegisterFetch(a)
    \/ RegisterInstall(a) \/ RegisterReturn(a)
    \/ UnregisterLock(a) \/ UnregisterCheck(a) \/ UnregisterDelete(a)
    \/ UnregisterCleanup(a)

InWriter(a) == call[a].op \in {"Register", "Unregister"}
Running(t) == call[t].pc = "i_running"

\* C9: a goroutine whose handler is running holds z.Mu neither for writing
\* nor for reading; and a Register or Unregister call can always take its
\* next step, whatever handlers are running, unless it waits for Mu.Lock()
\* while another Register or Unregister call holds it (and that call can
\* take its next step).
C9_HandlersRunOutsideLock ==
    /\ \A t \in Threads : Running(t) => (Mu.w # t /\ t \notin Mu.r)
    /\ ~fatal =>
         \A a \in Threads :
            InWriter(a) =>
                \/ ENABLED WriterStep(a)
                \/ /\ call[a].pc \in {"r_lock", "u_lock"}
                   /\ Mu.r = {}
                   /\ Mu.w \in Threads \ {a}
                   /\ InWriter(Mu.w)
                   /\ ENABLED WriterStep(Mu.w)

\* A handler is running while a Register call of another goroutine holds
\* Mu.Lock() and is about to store a pair.
C9_Witness ==
    \E t \in Threads, a \in Threads :
        /\ Running(t)
        /\ call[a].pc = "r_install"
        /\ Mu.w = a

\* C10: an Invoke call never waits: whatever the other goroutines are doing
\* (other Invoke calls included), it can look its handler up and call it,
\* and its running handler can return.
C10_InvokeNeverWaits ==
    ~fatal =>
        \A t \in Threads :
            /\ call[t].pc = "i_outer" => ENABLED InvokeOuter(t)
            /\ call[t].pc = "i_inner" => ENABLED InvokeInner(t)
            /\ Running(t) => ENABLED HandlerReturn(t)

\* Two Invoke calls for the same (script id, kind) pair are inside their
\* handlers at the same time.
C10_Witness ==
    /\ \A t \in Threads : Running(t)
    /\ \A t, u \in Threads :
          /\ call[t].name = call[u].name
          /\ call[t].evt = call[u].evt

\* C11: a Register call whose argument list is malformed ends by returning
\* an error value to its caller; it does not end in a panic.
C11_MalformedRegisterReturnsError ==
    (last.op = "Register" /\ last.bad # "none") => last.outcome = "error"

\* C13: whenever no Register or Unregister call is under way, every script
\* id that has an entry in z.Handlers has at least one handler in it.
C13_NoEmptyEntry ==
    (\A t \in Threads : ~InWriter(t)) =>
        \A s \in Names : Handlers[s].present => MapLen(Handlers[s].m) > 0

\* The kinds an entry has handlers for.
KindsOf(entry) == {k \in Kinds : entry.m[k] # NoHandler}

\* C14: after Unregister(s, k1..kn) has returned, having named every kind s
\* had a handler for when the call began, s is no key of z.Handlers: its
\* entry is the one of a script id that was never registered.
C14_LastKindRemovesEntry ==
    (/\ last.op = "Unregister"
     /\ ~last.nokinds
     /\ last.pre.present
     /\ KindsOf(last.pre) \subseteq last.listed) =>
        Handlers[last.name] = Absent

\* s had handlers for both kinds and the Unregister call named both.
C14_Witness ==
    /\ last.op = "Unregister"
    /\ ~last.nokinds
    /\ last.pre.present
    /\ KindsOf(last.pre) = Kinds
    /\ last.listed = Kinds
    /\ Handlers[last.name] = Absent

\* Between z.Mu.Lock() and the deferred z.Mu.Unlock() of a Register or
\* Unregister call.
InCritical(t) ==
    call[t].pc \in {"r_init", "r_loop", "r_install",
                    "u_check", "u_delete", "u_cleanup"}

\* Waiting in z.Mu.Lock().
AtLock(t) == call[t].pc \in {"r_lock", "u_lock"}

\* The entry of its script id a returned Register or Unregister call s
\* leaves when it runs alone on a registry where the entry is s.pre: what
\* the call read of its arguments, applied in order.
SequentialResult(s) ==
    IF s.op = "Register"
    THEN [present |-> TRUE,
          m |-> [k \in Kinds |->
                   IF s.named[k] # NoHandler THEN s.named[k] ELSE s.pre.m[k]]]
    ELSE IF s.nokinds \/ ~s.pre.present THEN Absent
    ELSE LET m == [k \in Kinds |->
                     IF k \in s.listed THEN NoHandler ELSE s.pre.m[k]]
         IN IF MapLen(m) = 0 THEN Absent ELSE [present |-> TRUE, m |-> m]

\* C15: a goroutine holds Mu.Lock() exactly while it is inside the critical
\* section of a Register or Unregister call (so at most one is, and every
\* way out of a call, the early returns of Unregister and the panic of
\* Register included, has released the lock); the call that holds the lock
\* can always take its next step, and when nobody holds it a waiting call
\* can acquire it; a returned call has left the entry of its script id as
\* the sequential call would, from the entry it found when it got the lock;
\* and every step that changes z.Handlers is a step of the holder of the
\* lock, on the entry of the script id of its call.
C15_WritersLinearizable ==
    /\ [](/\ \A t \in Threads : InCritical(t) <=> Mu.w = t
          /\ ~fatal =>
               \A t \in Threads :
                  /\ InCritical(t) => ENABLED WriterStep(t)
                  /\ (AtLock(t) /\ Mu.w = Free) => ENABLED WriterStep(t)
          /\ last.op \in {"Register", "Unregister"} =>
               Handlers[last.name] = SequentialResult(last))
    /\ [][(Handlers' # Handlers \/ HandlersNil' # HandlersNil) =>
            /\ Mu.w \in Threads
            /\ call'[Mu.w] # call[Mu.w]
            /\ \A s \in Names \ {call[Mu.w].name} :
                  Handlers'[s] = Handlers[s]]_vars

\* A Register call has left by its panic, the lock is free again, and an
\* Unregister call of the other goroutine, which waited for it, can take it.
C15_Witness ==
    /\ last.op = "Register"
    /\ last.outcome = "panic"
    /\ Mu.w = Free
    /\ \E t \in Threads : call[t].pc = "u_lock"

\* The kinds a returned Register or Unregister call s named.
NamedKinds(s) ==
    IF s.op = "Register" THEN KindsOf([m |-> s.named])
    ELSE IF s.nokinds THEN Kinds
    ELSE s.listed

\* A returned Unregister call s that named a script id without an entry, or
\* only kinds the script id had no handler for.
NamedNothingRegistered(s) ==
    /\ s.op = "Unregister"
    /\ \/ ~s.pre.present
       \/ ~s.nokinds /\ s.listed \cap KindsOf(s.pre) = {}

\* C18: a returned Register or Unregister call has left, for every kind it
\* did not name, the handler its script id had when the call began; an
\* Unregister call that named a script id without an entry, or only kinds
\* not registered for it, has returned normally and has left the entry of
\* the script id as it found it; and no step changes the entry of a script
\* id other than the one the call that takes the step names.
C18_UnnamedPairsUnchanged ==
    /\ [](last.op \in {"Register", "Unregister"} =>
            /\ \A k \in Kinds \ NamedKinds(last) :
                  Handlers[last.name].m[k] = last.pre.m[k]
            /\ NamedNothingRegistered(last) =>
                  (last.outcome = "ok" /\ Handlers[last.name] = last.pre))
    /\ [][\A s \in Names :
            Handlers'[s] # Handlers[s] =>
                (Mu.w \in Threads /\ call[Mu.w].name = s)]_vars

\* What of C18 the program keeps: the same, with "has left the handler of
\* every kind of the script id as it found it" for the Unregister call that
\* named nothing registered (the entry itself may go: an entry without
\* handlers, which only Register leaves, is deleted by the cleanup).
C18_HandlersOfUnnamedPairsUnchanged ==
    /\ [](last.op \in {"Register", "Unregister"} =>
            /\ \A k \in Kinds \ NamedKinds(last) :
                  Handlers[last.name].m[k] = last.pre.m[k]
            /\ NamedNothingRegistered(last) =>
                  (last.outcome = "ok" /\ Handlers[last.name].m = last.pre.m))
    /\ [][\A s \in Names :
            Handlers'[s] # Handlers[s] =>
                (Mu.w \in Threads /\ call[Mu.w].name = s)]_vars

\* ------------------------------------------ claims on the event record
\* C12: after Reset() the record holds the zero value in every field (no
\* actor, no receiver, spell id and extra data 0, encounter name empty, no
\* item, zone-data or array reference, the string list empty and its old
\* backing array gone, so that no earlier string can be read back), and
\* Reset has returned the record it was called on.
C12_ResetZeroesEveryField ==
    recOp.op = "Reset" =>
        /\ rec.EventType = EventSay
        /\ rec.Actor = NoMob /\ rec.Receiver = NoMob
        /\ rec.SpellID = 0 /\ rec.ExtraData = 0
        /\ rec.EncounterName = ""
        /\ StringList(rec) = <<>> /\ rec.StringArray.arr = <<>>
        /\ rec.Item = NoList /\ rec.ZoneData = NoList
        /\ rec.ItemArray = NoList /\ rec.ActorArray = NoList
        /\ recOp.ret = Self

\* The record that was reset had every field set, its string list through
\* Strings("b") on a longer list.
C12_Witness ==
    /\ recOp.op = "Reset"
    /\ \A f \in Fields \ {"StringArray"} : recOp.pre[f] = StaleEvent[f]
    /\ StringList(recOp.pre) = <<"b">>
    /\ recOp.pre.StringArray.arr = <<"b", "b">>
    /\ rec = ZeroEvent

\* The chained setters and the field each one stores.
SetterField(op) ==
    CASE op = "Type" -> "EventType"
      [] op = "SetActor" -> "Actor"
      [] op = "SetReceiver" -> "Receiver"
      [] op = "Spell" -> "SpellID"
      [] op = "Extra" -> "ExtraData"
      [] op = "Encounter" -> "EncounterName"
      [] op = "Strings" -> "StringArray"

Setters ==
    {"Type", "SetActor", "SetReceiver", "Spell", "Extra", "Encounter",
     "Strings"}

\* The calls of setters, <<setter, argument>>.
SetterCalls ==
    ({"Type"} \X Kinds) \cup ({"SetActor", "SetReceiver"} \X Mobs)
        \cup ({"Spell", "Extra"} \X Uint32s)
        \cup ({"Encounter"} \X EncounterNames)
        \cup ({"Strings"} \X StringLists)

\* The record after the setter call c on the record e.
Apply(e, c) ==
    CASE c[1] = "Type" -> Type(e, c[2])
      [] c[1] = "SetActor" -> SetActor(e, c[2])
      [] c[1] = "SetReceiver" -> SetReceiver(e, c[2])
      [] c[1] = "Spell" -> Spell(e, c[2])
      [] c[1] = "Extra" -> Extra(e, c[2])
      [] c[1] = "Encounter" -> Encounter(e, c[2])
      [] c[1] = "Strings" -> Strings(e, c[2])

\* C16: a setter that has returned has left its own field at the value it
\* was given (Strings: the string list at the values it was given) and every
\* other field of the record as it was, and has returned the record it was
\* called on; and the record is the same as if any setter of another field
\* had been called after it, or before it.
C16_SettersChangeOwnField ==
    /\ recOp.op \in Setters =>
          /\ \A f \in Fields \ {SetterField(recOp.op)} :
                rec[f] = recOp.pre[f]
          /\ IF recOp.op = "Strings"
             THEN StringList(rec) = recOp.arg
             ELSE rec[SetterField(recOp.op)] = recOp.arg
          /\ recOp.ret = Self
          /\ \A c \in SetterCalls :
                c[1] # recOp.op =>
                    Apply(rec, c) =
                        Apply(Apply(recOp.pre, c), <<recOp.op, recOp.arg>>)

\* Encounter("") has cleared the encounter name of a record whose other
\* fields are set, and they still are.
C16_Witness ==
    /\ recOp.op = "Encounter"
    /\ recOp.arg = ""
    /\ recOp.pre.EncounterName = "enc"
    /\ rec.SpellID = 1 /\ rec.Actor = "mob1" /\ rec.EventType = EventDeath
    /\ StringList(rec) = <<"a", "b">>

\* C17: Strings(v1..vn) has left the string list of the record at v1..vn,
\* whatever it held before; and on the record as it is now, Strings with any
\* values leaves exactly these values, Strings with no value the empty
\* list, and a second Strings with the same values the same list.
C17_StringsReplacesList ==
    /\ recOp.op = "Strings" => StringList(rec) = recOp.arg
    /\ StringList(Strings(rec, <<>>)) = <<>>
    /\ \A vals \in StringLists :
          /\ StringList(Strings(rec, vals)) = vals
          /\ StringList(Strings(Strings(rec, vals), vals)) =
                StringList(Strings(rec, vals))

\* Strings("b") on a record whose list was "a", "b": the list is "b", in
\* the backing array of the old list.
C17_Witness ==
    /\ recOp.op = "Strings"
    /\ StringList(recOp.pre) = <<"a", "b">>
    /\ recOp.arg = <<"b">>
    /\ StringList(rec) = <<"b">>
    /\ rec.StringArray.arr = <<"b", "b">>

\* C19: Reset leaves the kind of the record at EventSay, a kind of the
\* catalog; an Invoke(s, e) of the record after Reset, with no other method
\* of the record called in between, has called the EventSay handler of s,
\* once, when s has one, and has returned false without calling anything
\* when s has none.
C19_ResetRecordDispatchesToEventSay ==
    /\ Reset(rec).EventType = EventSay
    /\ EventSay \in Kinds
    /\ (recOp.op = "Reset" /\ QuietInvoke) =>
          LET h == Handlers[lastInvoke.name].m[EventSay] IN
          /\ lastInvoke.evt.EventType = EventSay
          /\ IF h # NoHandler
             THEN lastInvoke.calls = OneCall(h)
             ELSE lastInvoke.calls = <<>> /\ lastInvoke.ret = "false"

\* The record held EventDeath when it was reset; rat1 has h1 for EventSay
\* and h2 for EventDeath, and the Invoke("rat1", e) called h1.
C19_Witness ==
    /\ recOp.op = "Reset"
    /\ recOp.pre.EventType = EventDeath
    /\ QuietInvoke
    /\ lastInvoke.name = "rat1"
    /\ Handlers["rat1"].m[EventDeath] = "h2"
    /\ lastInvoke.calls = OneCall("h1")

\* ------------------------------------------- claims on re-entrant calls
\* The steps of goroutine t other than beginning a call.
Progress(t) ==
    \/ WriterStep(t)
    \/ InvokeOuter(t) \/ InvokeInner(t) \/ HandlerReturn(t)
    \/ HandlerResume(t)

\* C20: a goroutine that is in a call, or in a handler that waits for a
\* call it made on z, can always take its next step, unless it waits for
\* Mu.Lock() while a call of another goroutine holds it, and that call can
\* take its next step: a call a handler makes is never blocked by the
\* Invoke call the handler runs in.  (Every call is a finite run of steps,
\* so a call whose steps never block ends.)  And the Invoke call whose
\* handler made calls on z has returned what the handler returned.
C20_ReentrantCallsComplete ==
    /\ ~fatal =>
          \A t \in Threads :
             (call[t].pc # "idle" \/ stack[t] # <<>>) =>
                 \/ ENABLED Progress(t)
                 \/ /\ AtLock(t)
                    /\ Mu.r = {}
                    /\ Mu.w \in Threads \ {t}
                    /\ InCritical(Mu.w)
                    /\ ENABLED WriterStep(Mu.w)
    /\ (/\ lastInvoke.op = "Invoke"
        /\ lastInvoke.nested # {}
        /\ lastInvoke.hret \in {"true", "false"}) =>
            (lastInvoke.ret = lastInvoke.hret /\ lastInvoke.outcome = "ok")

\* Self-removal: the handler of a pair called Unregister for its own script
\* id, the Unregister call removed the handler and returned, and the Invoke
\* call returned the handler's true.
C20_Witness ==
    /\ lastInvoke.op = "Invoke"
    /\ lastInvoke.nested = {"Unregister"}
    /\ lastInvoke.ret = "true"
    /\ ncalls = 2
    /\ last.op = "Unregister"
    /\ last.name = lastInvoke.name
    /\ last.pre.m[lastInvoke.evt.EventType] # NoHandler
    /\ ~Handlers[lastInvoke.name].present

\* The handler's Register call waits for Mu.Lock() while an Unregister call
\* of the other goroutine holds it.
C20_WitnessContended ==
    \E t \in Threads, u \in Threads :
        /\ stack[t] # <<>>
        /\ call[t].pc = "r_lock"
        /\ call[u].pc = "u_delete"
        /\ Mu.w = u

=============================================================================
